---------------------------- MODULE Spec2Model ----------------------------
(***************************************************************************)
(* S3-FIFO cache: RingBuffer (src/src/lib/lib.rs), FIFOCache               *)
(* (src/src/lib/fifo_cache.rs) and the S3FIFO policy engine                *)
(* (src/src/lib/s3fifo.rs), modelled as a state machine whose actions are  *)
(* the public operations put and get.                                      *)
(***************************************************************************)
EXTENDS Integers, Sequences, FiniteSets, TLC

(* ---------------------------- bounds ---------------------------------- *)
MaxKey == 3
MaxValue == 1
MaxCacheSize == 3
RatioDen == 2
MaxHits == 4

Keys == 0..MaxKey
Values == 0..MaxValue

(* K::default() and V::default() of the integer keys and values used by   *)
(* the tests and the demo driver.                                          *)
DefaultKey == 0

(* The saturation bound of CacheMetadata::inc_freq. *)
FREQ_MAX == 3

Min(a, b) == IF a < b THEN a ELSE b

(* Option<T>: None is the empty sequence, Some(x) is <<x>>. *)
None == << >>
Some(x) == << x >>

(* ------------------------- CacheMetadata ------------------------------ *)
Meta_default == [freq |-> 0]

Meta_inc_freq_unsaturated(meta) == [meta EXCEPT !.freq = meta.freq + 1]

Meta_inc_freq(meta) == [meta EXCEPT !.freq = Min(meta.freq + 1, FREQ_MAX)]

Meta_desc_freq_clears(meta) == [meta EXCEPT !.freq = 0]

Meta_desc_freq(meta) ==
    IF meta.freq # 0 THEN [meta EXCEPT !.freq = meta.freq - 1] ELSE meta

(* --------------------------- CacheObject ------------------------------ *)
Obj_inc_freq(obj) == [obj EXCEPT !.meta = Meta_inc_freq(obj.meta)]

Obj_set_value_dropped(obj, value) == obj

Obj_set_value(obj, value) == [obj EXCEPT !.value = value]

Obj_get_freq(obj) == obj.meta.freq

(* ---------------------------- RingBuffer ------------------------------ *)
RB_new(capacity) ==
    [buffer   |-> [i \in 0..(capacity - 1) |-> DefaultKey],
     capacity |-> capacity,
     head     |-> 0,
     tail     |-> 0,
     size     |-> 0]

(* offset.rem_euclid(capacity): TLA+'s % is the Euclidean remainder for a *)
(* positive modulus.                                                       *)
RB_get_index(rb, orig_index, offset) ==
    ((orig_index % rb.capacity) + (offset % rb.capacity)) % rb.capacity

RB_index_forward(rb, orig_index) == RB_get_index(rb, orig_index, 1)

RB_index_backword(rb, orig_index) == RB_get_index(rb, orig_index, -1)

RB_push_front_keeps_tail(rb, value) ==
    LET h == RB_index_backword(rb, rb.head)
        b == [rb.buffer EXCEPT ![h] = value]
    IN  IF rb.size = rb.capacity
        THEN [rb EXCEPT !.buffer = b, !.head = h]
        ELSE [rb EXCEPT !.buffer = b, !.head = h, !.size = rb.size + 1]

RB_push_front(rb, value) ==
    LET h == RB_index_backword(rb, rb.head)
        b == [rb.buffer EXCEPT ![h] = value]
    IN  IF rb.size = rb.capacity
        THEN [rb EXCEPT !.buffer = b, !.head = h,
                        !.tail = RB_index_backword(rb, rb.tail)]
        ELSE [rb EXCEPT !.buffer = b, !.head = h, !.size = rb.size + 1]

RB_push_back_unclamped(rb, value) ==
    [rb EXCEPT !.buffer = [rb.buffer EXCEPT ![rb.tail] = value],
               !.tail = RB_index_forward(rb, rb.tail),
               !.size = rb.size + 1]

RB_push_back(rb, value) ==
    LET b == [rb.buffer EXCEPT ![rb.tail] = value]
        t == RB_index_forward(rb, rb.tail)
    IN  IF rb.size = rb.capacity
        THEN [rb EXCEPT !.buffer = b, !.tail = t,
                        !.head = RB_index_forward(rb, rb.head)]
        ELSE [rb EXCEPT !.buffer = b, !.tail = t, !.size = rb.size + 1]

(* pop_front returns the new buffer and the Option<T> result. *)
RB_pop_front_newest(rb) ==
    IF rb.size = 0
    THEN [rb |-> rb, ret |-> None]
    ELSE LET t == RB_index_backword(rb, rb.tail)
         IN  [rb  |-> [rb EXCEPT !.tail = t, !.size = rb.size - 1],
              ret |-> Some(rb.buffer[t])]

RB_pop_front(rb) ==
    IF rb.size = 0
    THEN [rb |-> rb, ret |-> None]
    ELSE [rb  |-> [rb EXCEPT !.head = RB_index_forward(rb, rb.head),
                             !.size = rb.size - 1],
          ret |-> Some(rb.buffer[rb.head])]

(* pop_back returns the new buffer and the Option<T> result. *)
RB_pop_back_keeps_tail(rb) ==
    IF rb.size = 0
    THEN [rb |-> rb, ret |-> None]
    ELSE LET t == RB_index_backword(rb, rb.tail)
         IN  [rb  |-> [rb EXCEPT !.size = rb.size - 1],
              ret |-> Some(rb.buffer[t])]

RB_pop_back(rb) ==
    IF rb.size = 0
    THEN [rb |-> rb, ret |-> None]
    ELSE LET t == RB_index_backword(rb, rb.tail)
         IN  [rb  |-> [rb EXCEPT !.tail = t, !.size = rb.size - 1],
              ret |-> Some(rb.buffer[t])]

RB_peak_front(rb) ==
    IF rb.size = 0 THEN None ELSE Some(rb.buffer[rb.head])

RB_peak_back(rb) ==
    IF rb.size = 0 THEN None ELSE Some(rb.buffer[rb.tail])

RB_len(rb) == rb.size

(* FIFOCache::is_full calls rb.is_full(), which lib.rs does not define;  *)
(* the buffer is full when size == capacity (the test push_back makes).   *)
RB_is_full(rb) == rb.size = rb.capacity

(* get_values: nothing when size == 0; otherwise the slot at head, then *)
(* the following slots up to, not including, tail.                        *)
RECURSIVE RB_get_values_loop(_, _, _)
RB_get_values_loop(rb, i, values) ==
    IF i # rb.tail
    THEN RB_get_values_loop(rb, RB_index_forward(rb, i),
                            Append(values, rb.buffer[i]))
    ELSE values

RB_get_values(rb) ==
    IF rb.size = 0
    THEN << >>
    ELSE RB_get_values_loop(rb, RB_index_forward(rb, rb.head),
                            << rb.buffer[rb.head] >>)

(* ----------------------------- FIFOCache ------------------------------ *)
FC_new(capacity) == [rb |-> RB_new(capacity), hashtable |-> << >>]

HT_insert(h, key, obj) ==
    [k \in (DOMAIN h) \cup {key} |-> IF k = key THEN obj ELSE h[k]]

HT_remove(h, key) == [k \in (DOMAIN h) \ {key} |-> h[k]]

(* update: no-op if the key isn't present. *)
FC_update(fc, key, value) ==
    IF key \in DOMAIN fc.hashtable
    THEN [fc EXCEPT !.hashtable[key] = Obj_set_value(fc.hashtable[key], value)]
    ELSE fc

FC_insert_with_meta(fc, key, value, meta) ==
    [rb        |-> RB_push_back(fc.rb, key),
     hashtable |-> HT_insert(fc.hashtable, key,
                             [value |-> value, meta |-> meta])]

FC_insert(fc, key, value) == FC_insert_with_meta(fc, key, value, Meta_default)

(* evict returns the new cache and Option<(K, CacheObject<V>)>. *)
FC_evict_keep_entry(fc) ==
    LET p == RB_pop_front(fc.rb)
    IN  IF p.ret # None /\ p.ret[1] \in DOMAIN fc.hashtable
        THEN [fc  |-> [fc EXCEPT !.rb = p.rb],
              ret |-> Some(<<p.ret[1], fc.hashtable[p.ret[1]]>>)]
        ELSE [fc |-> [fc EXCEPT !.rb = p.rb], ret |-> None]

FC_evict(fc) ==
    LET p == RB_pop_front(fc.rb)
    IN  IF p.ret # None /\ p.ret[1] \in DOMAIN fc.hashtable
        THEN [fc  |-> [rb |-> p.rb,
                       hashtable |-> HT_remove(fc.hashtable, p.ret[1])],
              ret |-> Some(<<p.ret[1], fc.hashtable[p.ret[1]]>>)]
        ELSE [fc |-> [fc EXCEPT !.rb = p.rb], ret |-> None]

FC_inc_freq(fc, key) ==
    IF key \in DOMAIN fc.hashtable
    THEN [fc EXCEPT !.hashtable[key] = Obj_inc_freq(fc.hashtable[key])]
    ELSE fc

(* find and find_mut return the cache after the counter update and the   *)
(* Option of the entry found.                                             *)
FC_find(fc, key) ==
    LET f == FC_inc_freq(fc, key)
    IN  [fc  |-> f,
         ret |-> IF key \in DOMAIN f.hashtable
                 THEN Some(f.hashtable[key]) ELSE None]

FC_find_mut(fc, key) ==
    LET f == FC_inc_freq(fc, key)
    IN  [fc  |-> f,
         ret |-> IF key \in DOMAIN f.hashtable
                 THEN Some(f.hashtable[key]) ELSE None]

FC_len(fc) == RB_len(fc.rb)

FC_empty(fc) == FC_len(fc) = 0

FC_is_full(fc) == RB_is_full(fc.rb)

(* ------------------------------ S3FIFO -------------------------------- *)
(* ((cache_size as f64) * small_cache_ratio) as usize, for the ratio      *)
(* num / RatioDen.                                                         *)
SmallCapacityRatio(cache_size, num, den) == (cache_size * num) \div den

SmallCapacity(cache_size, num) == SmallCapacityRatio(cache_size, num, RatioDen)

(* The arguments (ratio num / den) on which S3FIFO::new passes its two    *)
(* assertions and the assertion of each of its RingBuffer::new calls.      *)
NewSucceedsRatio(cache_size, num, den) ==
    /\ num > 0 /\ num < den
    /\ cache_size - SmallCapacityRatio(cache_size, num, den) > 0
    /\ SmallCapacityRatio(cache_size, num, den) # 0

NewSucceeds(cache_size, num) == NewSucceedsRatio(cache_size, num, RatioDen)

S3FIFO_new_ratio(cache_size, num, den) ==
    LET small_cache_capacity == SmallCapacityRatio(cache_size, num, den)
        main_cache_capacity  == cache_size - small_cache_capacity
        ghost_cache_capacity == main_cache_capacity
    IN  [cache_size                 |-> cache_size,
         small_cache_capacity_ratio |-> num,
         small_cache_capacity       |-> small_cache_capacity,
         main_cache_capacity        |-> main_cache_capacity,
         ghost_cache_capacity       |-> ghost_cache_capacity,
         s_queue |-> FC_new(small_cache_capacity),
         m_queue |-> FC_new(main_cache_capacity),
         g_queue |-> FC_new(ghost_cache_capacity),
         size    |-> 0]

S3FIFO_new(cache_size, num) == S3FIFO_new_ratio(cache_size, num, RatioDen)

is_full_off_by_one(self) == self.size = self.cache_size + 1

is_full(self) == self.size = self.cache_size

RECURSIVE evict_m_loop(_, _)
evict_m_loop(self, evicted) ==
    IF ~evicted /\ ~FC_empty(self.m_queue)
    THEN LET e == FC_evict(self.m_queue)
             s1 == [self EXCEPT !.m_queue = e.fc]
         IN  IF e.ret # None
             THEN LET key == e.ret[1][1]
                      obj == e.ret[1][2]
                  IN  IF Obj_get_freq(obj) > 0
                      THEN evict_m_loop(
                             [s1 EXCEPT !.m_queue =
                                FC_insert_with_meta(s1.m_queue, key, obj.value,
                                                    Meta_desc_freq(obj.meta))],
                             evicted)
                      ELSE evict_m_loop(s1, TRUE)
             ELSE evict_m_loop(s1, evicted)
    ELSE self

evict_m(self) == evict_m_loop(self, FALSE)

RECURSIVE evict_s_loop(_, _)
evict_s_loop(self, evicted) ==
    IF ~evicted /\ ~FC_empty(self.s_queue)
    THEN LET e == FC_evict(self.s_queue)
             s1 == [self EXCEPT !.s_queue = e.fc]
         IN  IF e.ret # None
             THEN LET key == e.ret[1][1]
                      obj == e.ret[1][2]
                  IN  IF Obj_get_freq(obj) > 1
                      THEN LET s2 == [s1 EXCEPT !.m_queue =
                                        FC_insert(s1.m_queue, key, obj.value)]
                           IN  evict_s_loop(
                                 IF FC_is_full(s2.m_queue)
                                 THEN evict_m(s2) ELSE s2,
                                 evicted)
                      ELSE evict_s_loop(
                             [s1 EXCEPT !.g_queue =
                                FC_insert(s1.g_queue, key, obj.value)],
                             TRUE)
             ELSE evict_s_loop(s1, evicted)
    ELSE self

evict_s(self) == evict_s_loop(self, FALSE)

evict(self) ==
    LET s1 == IF FC_is_full(self.s_queue) THEN evict_s(self) ELSE self
    IN  IF FC_is_full(s1.m_queue) THEN evict_m(s1) ELSE s1

(* The part of insert after the `while self.is_full()` loop has exited. *)
insert_tail(self, key, value) ==
    LET g  == FC_find(self.g_queue, key)
        s1 == [self EXCEPT !.g_queue = g.fc]
        s2 == IF g.ret # None
              THEN [s1 EXCEPT !.m_queue = FC_insert(s1.m_queue, key, value)]
              ELSE [s1 EXCEPT !.s_queue = FC_insert(s1.s_queue, key, value)]
    IN  [s2 EXCEPT !.size = s2.size + 1]

(* get returns the cache after the lookups and Option<&V>. *)
get_probes_ghost(self, key) ==
    LET s == FC_find(self.s_queue, key)
        s1 == [self EXCEPT !.s_queue = s.fc]
    IN  IF s.ret # None
        THEN [self |-> s1, ret |-> Some(s.ret[1].value)]
        ELSE LET m == FC_find(s1.m_queue, key)
                 s2 == [s1 EXCEPT !.m_queue = m.fc]
                 g == FC_find(s2.g_queue, key)
             IN  IF m.ret # None
                 THEN [self |-> s2, ret |-> Some(m.ret[1].value)]
                 ELSE IF g.ret # None
                      THEN [self |-> [s2 EXCEPT !.g_queue = g.fc],
                            ret  |-> Some(g.ret[1].value)]
                      ELSE [self |-> s2, ret |-> None]

get(self, key) ==
    LET s == FC_find(self.s_queue, key)
        s1 == [self EXCEPT !.s_queue = s.fc]
    IN  IF s.ret # None
        THEN [self |-> s1, ret |-> Some(s.ret[1].value)]
        ELSE LET m == FC_find(s1.m_queue, key)
                 s2 == [s1 EXCEPT !.m_queue = m.fc]
             IN  IF m.ret # None
                 THEN [self |-> s2, ret |-> Some(m.ret[1].value)]
                 ELSE [self |-> s2, ret |-> None]

(* The part of put before the call of insert: found is TRUE when the key *)
(* was in S or M and put has returned.                                    *)
put_lookup_reinsert(self, key, value) ==
    LET s == FC_find_mut(self.s_queue, key)
        s1 == [self EXCEPT !.s_queue = s.fc]
    IN  [self |-> s1, found |-> FALSE]

put_lookup(self, key, value) ==
    LET s == FC_find_mut(self.s_queue, key)
        s1 == [self EXCEPT !.s_queue = s.fc]
    IN  IF s.ret # None
        THEN [self  |-> [s1 EXCEPT !.s_queue.hashtable[key] =
                            Obj_set_value(s.ret[1], value)],
              found |-> TRUE]
        ELSE LET m == FC_find_mut(s1.m_queue, key)
                 s2 == [s1 EXCEPT !.m_queue = m.fc]
             IN  IF m.ret # None
                 THEN [self  |-> [s2 EXCEPT !.m_queue.hashtable[key] =
                                     Obj_set_value(m.ret[1], value)],
                       found |-> TRUE]
                 ELSE [self |-> s2, found |-> FALSE]

(* --------------------------- state machine ---------------------------- *)
VARIABLES
    cache,    \* the S3FIFO struct
    pc,       \* "idle": no call in progress; "insert": put is inside
              \* the `while self.is_full() { self.evict() }` loop of insert
    pending,  \* the (key, value) arguments of the put in progress
    iter,     \* parity of the number of iterations that loop has run
    hits,     \* per key: get hits since put admitted it, or -1 when a
              \* later put or an eviction pass has touched it
    fifo,     \* a FIFOCache driven directly through its own operations
    order,    \* the (key, value) pairs inserted into fifo and not yet
              \* evicted, oldest first
    broken,   \* the caller obligations of FIFOCache::insert broken so far
    ring,     \* a RingBuffer driven directly through its own operations
    ref       \* the reference deque: what ring is specified to hold

s3vars == <<cache, pc, pending, iter, hits>>

unitvars == <<fifo, order, broken, ring, ref>>

vars == <<cache, pc, pending, iter, hits, fifo, order, broken, ring, ref>>

(* No FIFOCache or RingBuffer is driven on its own. *)
NoUnit ==
    /\ fifo = FC_new(1)
    /\ order = << >>
    /\ broken = {}
    /\ ring = RB_new(1)
    /\ ref = << >>

(* No S3FIFO call is in progress and the eviction ghosts are reset. *)
NoCall ==
    /\ pc = "idle"
    /\ pending = None
    /\ iter = 0
    /\ hits = [k \in Keys |-> -1]

Init ==
    /\ \E cache_size \in 2..MaxCacheSize, num \in 1..(RatioDen - 1) :
          /\ NewSucceeds(cache_size, num)
          /\ cache = S3FIFO_new(cache_size, num)
    /\ NoCall
    /\ NoUnit

(* put(key, value).  A put that finds the key, or finds room, runs to its *)
(* return; a put of a new key into a full cache enters the eviction loop. *)
Put(key, value) ==
    /\ pc = "idle"
    /\ UNCHANGED unitvars
    /\ LET p == put_lookup(cache, key, value)
       IN  IF p.found
           THEN /\ cache' = p.self
                /\ hits' = [hits EXCEPT ![key] = -1]
                /\ UNCHANGED <<pc, pending, iter>>
           ELSE IF is_full(p.self)
                THEN /\ cache' = p.self
                     /\ pc' = "insert"
                     /\ pending' = <<key, value>>
                     /\ UNCHANGED <<iter, hits>>
                ELSE /\ cache' = insert_tail(p.self, key, value)
                     /\ hits' = [hits EXCEPT ![key] = 0]
                     /\ UNCHANGED <<pc, pending, iter>>

(* One iteration of `while self.is_full() { self.evict() }`, followed by  *)
(* the rest of insert and the return of put when the loop test fails.     *)
InsertLoop ==
    /\ pc = "insert"
    /\ UNCHANGED unitvars
    /\ LET s1 == evict(cache)
       IN  IF is_full(s1)
           THEN /\ cache' = s1
                /\ hits' = [k \in Keys |-> -1]
                /\ iter' = 1 - iter
                /\ UNCHANGED <<pc, pending>>
           ELSE /\ cache' = insert_tail(s1, pending[1], pending[2])
                /\ hits' = [k \in Keys |-> IF k = pending[1] THEN 0 ELSE -1]
                /\ pc' = "idle"
                /\ pending' = None
                /\ iter' = 0

(* get(key). *)
Get(key) ==
    /\ pc = "idle"
    /\ LET r == get(cache, key)
       IN  /\ cache' = r.self
           /\ hits' = IF r.ret # None /\ hits[key] >= 0
                      THEN [hits EXCEPT ![key] = Min(hits[key] + 1, MaxHits)]
                      ELSE hits
    /\ UNCHANGED <<pc, pending, iter>>
    /\ UNCHANGED unitvars

Next ==
    \/ \E key \in Keys, value \in Values : Put(key, value)
    \/ \E key \in Keys : Get(key)
    \/ InsertLoop

Spec == Init /\ [][Next]_vars

(* A call in progress keeps executing: the loop of insert is the only    *)
(* code that runs while pc = "insert".                                     *)
FairSpec == Spec /\ WF_vars(InsertLoop)

(* ------------------------- observation helpers ------------------------ *)
(* The keys get can hit: those in the mappings of S and M. *)
LiveKeys(self) ==
    (DOMAIN self.s_queue.hashtable) \cup (DOMAIN self.m_queue.hashtable)

(* The entry get would hit for a live key: S is probed before M. *)
LiveEntry(self, key) ==
    IF key \in DOMAIN self.s_queue.hashtable
    THEN self.s_queue.hashtable[key]
    ELSE self.m_queue.hashtable[key]

RingKeys(fc) ==
    LET vals == RB_get_values(fc.rb) IN {vals[i] : i \in 1..Len(vals)}

Queues == {"s_queue", "m_queue", "g_queue"}

(* ------------------------------- claims ------------------------------- *)

(* C1: every call of put terminates: a put that has entered the          *)
(* `while self.is_full() { self.evict() }` loop of insert eventually      *)
(* leaves it and returns.                                                 *)
C1_PutTerminates == (pc = "insert") ~> (pc = "idle")

(* C2: whenever a public operation has returned, size equals             *)
(* S.len() + M.len().                                                     *)
C2_SizeIsSPlusM ==
    pc = "idle" =>
        cache.size = FC_len(cache.s_queue) + FC_len(cache.m_queue)

(* C3: the number of live entries (keys in the mappings of S and M)      *)
(* never exceeds total_capacity, in any reachable state.                  *)
C3_CapacityBound == Cardinality(LiveKeys(cache)) <= cache.cache_size

(* C3 witness: a put of a new key has been issued on a cache holding     *)
(* total_capacity live entries.                                           *)
C3_Witness ==
    /\ pc = "insert"
    /\ Cardinality(LiveKeys(cache)) = cache.cache_size

(* C4: last write wins: a put(k, v) that has returned is followed by a   *)
(* get(k) that returns v, both for a put that admits k into a cache that  *)
(* is not full and for a put that overwrites an earlier put of k.         *)
C4_LastWriteWins ==
    [][\A k \in Keys, v \in Values :
          (Put(k, v) /\ pc' = "idle") => get(cache', k).ret = Some(v)]_vars

(* C4 witness: a second put of a live key has replaced the value of the  *)
(* first (hits[k] = -1 on a live key records the later put).              *)
C4_Witness ==
    /\ pc = "idle"
    /\ \E k \in LiveKeys(cache) :
          /\ hits[k] = -1
          /\ get(cache, k).ret = Some(MaxValue)

(* C5: a put on a key already in S or M leaves that entry's frequency    *)
(* counter unchanged.                                                     *)
C5_DupPutKeepsFreq ==
    [][\A k \in Keys, v \in Values :
          (Put(k, v) /\ k \in LiveKeys(cache)) =>
              Obj_get_freq(LiveEntry(cache', k)) =
                  Obj_get_freq(LiveEntry(cache, k))]_vars

(* C6: a put on a key already in S or M leaves size, the three rings     *)
(* (hence S.len(), M.len(), G.len() and every key's position) and the key *)
(* sets of the three mappings unchanged.                                  *)
C6_DupPutFrame ==
    [][\A k \in Keys, v \in Values :
          (Put(k, v) /\ k \in LiveKeys(cache)) =>
              /\ cache'.size = cache.size
              /\ pc' = "idle"
              /\ \A q \in Queues :
                    /\ cache'[q].rb = cache[q].rb
                    /\ DOMAIN cache'[q].hashtable = DOMAIN cache[q].hashtable
              /\ cache'.g_queue = cache.g_queue]_vars

(* C6 witness: the only key ever admitted has been put again, repeatedly. *)
C6_Witness ==
    /\ pc = "idle"
    /\ cache.size = 1
    /\ FC_len(cache.s_queue) = 1
    /\ \E k \in DOMAIN cache.s_queue.hashtable :
          /\ hits[k] = -1
          /\ Obj_get_freq(cache.s_queue.hashtable[k]) = FREQ_MAX

(* C7: no key is in the mappings of both S and M.  Stated for every      *)
(* reachable state, which includes every state in which a public          *)
(* operation has returned.                                                *)
C7_SMDisjoint ==
    (DOMAIN cache.s_queue.hashtable) \cap (DOMAIN cache.m_queue.hashtable) = {}

(* C7 witness: evict_s has promoted a key to M while S still holds keys. *)
C7_Witness ==
    /\ cache.m_queue.hashtable # << >>
    /\ cache.s_queue.hashtable # << >>
    /\ FC_len(cache.m_queue) = 1

(* C8: an entry admitted by put and then hit n times by get, with no     *)
(* put of its key and no eviction pass in between, has counter            *)
(* min(n, 3); every counter of S, M and G lies in 0..3.                   *)
C8_FreqSaturation ==
    /\ \A k \in Keys :
          hits[k] >= 0 =>
              /\ k \in LiveKeys(cache)
              /\ Obj_get_freq(LiveEntry(cache, k)) = Min(hits[k], FREQ_MAX)
    /\ \A q \in Queues : \A k \in DOMAIN cache[q].hashtable :
          Obj_get_freq(cache[q].hashtable[k]) \in 0..FREQ_MAX

(* C8 witness: an entry has been hit more than FREQ_MAX times. *)
C8_Witness ==
    \E k \in Keys :
        /\ hits[k] > FREQ_MAX
        /\ Obj_get_freq(LiveEntry(cache, k)) = FREQ_MAX

(* What get(key) may change on a hit: the counter of the entry it hits. *)
OnlyFreqOfChanged(old, new, key) ==
    /\ new.size = old.size
    /\ new.cache_size = old.cache_size
    /\ new.g_queue = old.g_queue
    /\ \A q \in {"s_queue", "m_queue"} :
          /\ new[q].rb = old[q].rb
          /\ DOMAIN new[q].hashtable = DOMAIN old[q].hashtable
          /\ \A j \in DOMAIN old[q].hashtable :
                /\ new[q].hashtable[j].value = old[q].hashtable[j].value
                /\ j # key => new[q].hashtable[j] = old[q].hashtable[j]

(* C9: get(k) returns absent exactly when k is in the mapping of neither *)
(* S nor M (so a key held only in G is a miss); a miss leaves the cache   *)
(* unchanged and a hit changes only the counter of the entry hit.         *)
C9_GetFrame ==
    /\ [](\A k \in Keys :
             (get(cache, k).ret = None) <=> (k \notin LiveKeys(cache)))
    /\ [][\A k \in Keys :
             Get(k) =>
                IF get(cache, k).ret = None
                THEN cache' = cache
                ELSE OnlyFreqOfChanged(cache, cache', k)]_vars

(* C9 witness: get has hit one key while another key is absent. *)
C9_Witness ==
    /\ pc = "idle"
    /\ \E k \in Keys : hits[k] = 1
    /\ \E j \in Keys : j \notin LiveKeys(cache)

(* C10: in every reachable state each of S, M and G has                  *)
(* ring.len == mapping.len and the same keys in its ring as in its        *)
(* mapping.                                                               *)
C10_RingMatchesMapping ==
    \A q \in Queues :
        /\ FC_len(cache[q]) = Cardinality(DOMAIN cache[q].hashtable)
        /\ RingKeys(cache[q]) = DOMAIN cache[q].hashtable

(* C11: the ring of each queue never holds more keys than its capacity:  *)
(* S.len() <= Cs, M.len() <= Cm and G.len() <= Cg.                        *)
C11_QueueBounds ==
    /\ FC_len(cache.s_queue) <= cache.small_cache_capacity
    /\ FC_len(cache.m_queue) <= cache.main_cache_capacity
    /\ FC_len(cache.g_queue) <= cache.ghost_cache_capacity

(* C11 witness: more keys were put than S's ring holds, and the ring is  *)
(* at its capacity.                                                       *)
C11_Witness ==
    /\ FC_len(cache.s_queue) = cache.small_cache_capacity
    /\ Cardinality(DOMAIN cache.s_queue.hashtable) >
           cache.small_cache_capacity

(* The keys that can be the oldest key admitted to S with counter <= 1:  *)
(* a key of S's mapping that the ring no longer holds was admitted before *)
(* every key in the ring, and the ring lists its keys oldest first.       *)
OldestLowFreq(self) ==
    LET low  == {k \in DOMAIN self.s_queue.hashtable :
                    Obj_get_freq(self.s_queue.hashtable[k]) <= 1}
        vals == RB_get_values(self.s_queue.rb)
        gone == low \ RingKeys(self.s_queue)
    IN  IF gone # {}
        THEN gone
        ELSE {vals[i] : i \in {j \in 1..Len(vals) :
                                  /\ vals[j] \in low
                                  /\ \A h \in 1..(j - 1) : vals[h] \notin low}}

(* C13: the eviction pass run by a put of a new key that found the cache *)
(* full moves the oldest key admitted to S with counter <= 1 to G, and    *)
(* the put returns with the new key admitted to S.                        *)
C13_OldestToGhost ==
    [][(InsertLoop /\ iter = 0) =>
          /\ pc' = "idle"
          /\ pending[1] \in DOMAIN cache'.s_queue.hashtable
          /\ \E o \in OldestLowFreq(cache) :
                /\ o \in DOMAIN cache'.g_queue.hashtable
                /\ o \notin LiveKeys(cache')]_vars

(* The keys evict_s pops with counter > 1: the keys at the head of S's   *)
(* ring up to the first key whose counter is <= 1.                        *)
PromotedKeys(self) ==
    LET vals == RB_get_values(self.s_queue.rb)
        high(i) == /\ vals[i] \in DOMAIN self.s_queue.hashtable
                   /\ Obj_get_freq(self.s_queue.hashtable[vals[i]]) > 1
    IN  {vals[i] : i \in {j \in 1..Len(vals) : \A h \in 1..j : high(h)}}

(* C14: whenever evict_s runs (S is full inside insert's loop), every    *)
(* entry it pops with counter > 1 is in M, with its value, when evict_s   *)
(* returns.                                                               *)
C14_PromotionPreserves ==
    (pc = "insert" /\ FC_is_full(cache.s_queue)) =>
        \A k \in PromotedKeys(cache) :
            /\ k \in DOMAIN evict_s(cache).m_queue.hashtable
            /\ evict_s(cache).m_queue.hashtable[k].value =
                   cache.s_queue.hashtable[k].value

(* What insert(key, value) does once room exists: the key goes to M when *)
(* G holds it and to S otherwise, size grows by one and get returns the   *)
(* value.                                                                 *)
Admitted(before, after, key, value) ==
    /\ key \in DOMAIN before.g_queue.hashtable =>
          /\ key \in DOMAIN after.m_queue.hashtable
          /\ key \notin DOMAIN after.s_queue.hashtable
    /\ key \notin DOMAIN before.g_queue.hashtable =>
          /\ key \in DOMAIN after.s_queue.hashtable
          /\ key \notin DOMAIN after.m_queue.hashtable
    /\ after.size = before.size + 1
    /\ get(after, key).ret = Some(value)

(* C15: every insert(k, v) of a key absent from S and M admits k, to M   *)
(* when k is in G and to S otherwise: at once when the cache has room,    *)
(* and after the eviction pass when the cache was full.                   *)
C15_GhostAdmission ==
    [][/\ \A k \in Keys, v \in Values :
             (Put(k, v) /\ k \notin LiveKeys(cache) /\ ~is_full(cache)) =>
                 Admitted(cache, cache', k, v)
       /\ (InsertLoop /\ iter = 0) =>
             /\ pc' = "idle"
             /\ Admitted(evict(cache), cache', pending[1], pending[2])]_vars

(* ------------------------ S3FIFO::new on its own ---------------------- *)
MaxNewCacheSize == 7
NewRatioDen == 4

(* S3FIFO::new(cache_size, num / NewRatioDen) is about to be called with *)
(* the arguments in pending, valid or not.                                *)
InitNew ==
    /\ \E cache_size \in 0..MaxNewCacheSize, num \in -1..(NewRatioDen + 1) :
          pending = <<cache_size, num>>
    /\ cache = None
    /\ pc = "new"
    /\ iter = 0
    /\ hits = [k \in Keys |-> -1]
    /\ NoUnit

(* The call of new: it returns the cache, or an assertion aborts it. *)
New ==
    /\ pc = "new"
    /\ IF NewSucceedsRatio(pending[1], pending[2], NewRatioDen)
       THEN /\ cache' = S3FIFO_new_ratio(pending[1], pending[2], NewRatioDen)
            /\ pc' = "idle"
            /\ pending' = None
       ELSE /\ pc' = "aborted"
            /\ UNCHANGED <<cache, pending>>
    /\ UNCHANGED <<iter, hits>>
    /\ UNCHANGED unitvars

SpecNew == InitNew /\ [][New]_vars

(* C12: new succeeds for total_capacity >= 2, 0 < ratio < 1 and          *)
(* floor(total_capacity * ratio) < total_capacity, giving                 *)
(* Cs = floor(total_capacity * ratio), Cm = total_capacity - Cs,          *)
(* Cg = Cm and size = 0; it aborts only for capacity 0, a ratio outside   *)
(* (0,1) or Cm = 0.                                                       *)
C12_NewSucceeds ==
    /\ pc = "aborted" =>
          /\ ~ (/\ pending[1] >= 2
                /\ 0 < pending[2] /\ pending[2] < NewRatioDen
                /\ (pending[1] * pending[2]) \div NewRatioDen < pending[1])
          /\ \/ pending[1] = 0
             \/ pending[2] <= 0
             \/ pending[2] >= NewRatioDen
             \/ pending[1] - (pending[1] * pending[2]) \div NewRatioDen = 0
    /\ pc = "idle" =>
          /\ cache.small_cache_capacity =
                (cache.cache_size * cache.small_cache_capacity_ratio)
                    \div NewRatioDen
          /\ cache.main_cache_capacity =
                cache.cache_size - cache.small_cache_capacity
          /\ cache.ghost_cache_capacity = cache.main_cache_capacity
          /\ cache.size = 0

(* ------------------------- FIFOCache on its own ----------------------- *)
MaxFifoCapacity == 2

(* No S3FIFO has been constructed. *)
NoCache ==
    /\ cache = None
    /\ pc = "none"
    /\ pending = None
    /\ iter = 0
    /\ hits = [k \in Keys |-> -1]

InitFifo ==
    /\ NoCache
    /\ \E capacity \in 1..MaxFifoCapacity : fifo = FC_new(capacity)
    /\ order = << >>
    /\ broken = {}
    /\ ring = RB_new(1)
    /\ ref = << >>

(* The obligations an insert of key into fc breaks: the ring must not be *)
(* full and the key must not be present.                                  *)
Breaks(fc, key) ==
    (IF FC_is_full(fc) THEN {"full"} ELSE {}) \cup
    (IF key \in DOMAIN fc.hashtable THEN {"present"} ELSE {})

(* A run is followed up to the first insert that breaks an obligation. *)
FifoInsert(key, value) ==
    /\ broken = {}
    /\ fifo' = FC_insert(fifo, key, value)
    /\ order' = Append(order, <<key, value>>)
    /\ broken' = Breaks(fifo, key)
    /\ UNCHANGED <<s3vars, ring, ref>>

FifoInsertWithMeta(key, value, freq) ==
    /\ broken = {}
    /\ fifo' = FC_insert_with_meta(fifo, key, value, [freq |-> freq])
    /\ order' = Append(order, <<key, value>>)
    /\ broken' = Breaks(fifo, key)
    /\ UNCHANGED <<s3vars, ring, ref>>

FifoFind(key) ==
    /\ broken = {}
    /\ fifo' = FC_find(fifo, key).fc
    /\ UNCHANGED <<s3vars, order, broken, ring, ref>>

FifoFindMut(key) ==
    /\ broken = {}
    /\ fifo' = FC_find_mut(fifo, key).fc
    /\ UNCHANGED <<s3vars, order, broken, ring, ref>>

FifoUpdate(key, value) ==
    /\ broken = {}
    /\ fifo' = FC_update(fifo, key, value)
    /\ order' = [i \in 1..Len(order) |->
                    IF order[i][1] = key THEN <<key, value>> ELSE order[i]]
    /\ UNCHANGED <<s3vars, broken, ring, ref>>

FifoEvict ==
    /\ broken = {}
    /\ fifo' = FC_evict(fifo).fc
    /\ order' = IF order = << >> THEN order ELSE Tail(order)
    /\ UNCHANGED <<s3vars, broken, ring, ref>>

NextFifo ==
    \/ \E key \in Keys, value \in Values : FifoInsert(key, value)
    \/ \E key \in Keys, value \in Values, freq \in 0..FREQ_MAX :
          FifoInsertWithMeta(key, value, freq)
    \/ \E key \in Keys : FifoFind(key)
    \/ \E key \in Keys : FifoFindMut(key)
    \/ \E key \in Keys, value \in Values : FifoUpdate(key, value)
    \/ FifoEvict

SpecFifo == InitFifo /\ [][NextFifo]_vars

FifoConsistent ==
    /\ FC_len(fifo) = Cardinality(DOMAIN fifo.hashtable)
    /\ RingKeys(fifo) = DOMAIN fifo.hashtable

(* C16 as claimed: after any FIFOCache operations that never insert      *)
(* while is_full(), ring.len() == mapping.len() and the ring and the      *)
(* mapping hold the same keys.                                            *)
C16_ConsistentUnlessFull == ("full" \notin broken) => FifoConsistent

(* C16 as amended: the same, for operations that never insert while      *)
(* is_full() and never insert a key that is already present.              *)
C16_ConsistentIfObligationsKept == (broken = {}) => FifoConsistent

(* C16 witness: a full cache whose ring has wrapped after evictions. *)
C16_Witness ==
    /\ broken = {}
    /\ FC_is_full(fifo)
    /\ fifo.rb.capacity = MaxFifoCapacity
    /\ fifo.rb.head # 0

(* C17: evict returns the entries in insertion order: the oldest         *)
(* inserted key with its value, removed from ring and mapping, leaving    *)
(* the later keys in order; on an empty cache it returns nothing and      *)
(* changes nothing.                                                       *)
C17_EvictInInsertionOrder ==
    (broken = {}) =>
        LET e == FC_evict(fifo)
        IN  IF order = << >>
            THEN e.ret = None /\ e.fc = fifo
            ELSE /\ e.ret # None
                 /\ e.ret[1][1] = Head(order)[1]
                 /\ e.ret[1][2].value = Head(order)[2]
                 /\ Head(order)[1] \notin RingKeys(e.fc)
                 /\ Head(order)[1] \notin DOMAIN e.fc.hashtable
                 /\ RB_get_values(e.fc.rb) =
                        [i \in 1..(Len(order) - 1) |-> order[i + 1][1]]

(* C17 witness: two keys inserted after earlier evictions, the older one *)
(* next to be evicted.                                                    *)
C17_Witness ==
    /\ broken = {}
    /\ Len(order) = 2
    /\ fifo.rb.head # 0
    /\ FC_evict(fifo).ret # None
    /\ FC_evict(FC_evict(fifo).fc).ret # None

(* ------------------------- RingBuffer on its own ---------------------- *)
MaxRingCapacity == 3

InitRing ==
    /\ NoCache
    /\ fifo = FC_new(1)
    /\ order = << >>
    /\ broken = {}
    /\ \E capacity \in 1..MaxRingCapacity : ring = RB_new(capacity)
    /\ ref = << >>

(* ref follows the specified deque: a push on a full buffer drops the    *)
(* oldest element (push_back) or the newest (push_front).                 *)
RingPushBack(value) ==
    /\ ring' = RB_push_back(ring, value)
    /\ ref' = IF Len(ref) = ring.capacity
              THEN Append(Tail(ref), value)
              ELSE Append(ref, value)
    /\ UNCHANGED <<s3vars, fifo, order, broken>>

RingPushFront(value) ==
    /\ ring' = RB_push_front(ring, value)
    /\ ref' = IF Len(ref) = ring.capacity
              THEN <<value>> \o SubSeq(ref, 1, Len(ref) - 1)
              ELSE <<value>> \o ref
    /\ UNCHANGED <<s3vars, fifo, order, broken>>

RingPopFront ==
    /\ ring' = RB_pop_front(ring).rb
    /\ ref' = IF ref = << >> THEN ref ELSE Tail(ref)
    /\ UNCHANGED <<s3vars, fifo, order, broken>>

RingPopBack ==
    /\ ring' = RB_pop_back(ring).rb
    /\ ref' = IF ref = << >> THEN ref ELSE SubSeq(ref, 1, Len(ref) - 1)
    /\ UNCHANGED <<s3vars, fifo, order, broken>>

NextRing ==
    \/ \E value \in Keys : RingPushBack(value)
    \/ \E value \in Keys : RingPushFront(value)
    \/ RingPopFront
    \/ RingPopBack

SpecRing == InitRing /\ [][NextRing]_vars

(* C18: after any sequence of push_back, push_front, pop_front and       *)
(* pop_back, get_values() and len() are those of the reference deque, and *)
(* the next pop_front / pop_back returns its oldest / newest element, or  *)
(* nothing when it is empty.                                              *)
C18_RingRefinesDeque ==
    /\ RB_get_values(ring) = ref
    /\ RB_len(ring) = Len(ref)
    /\ RB_pop_front(ring).ret =
          (IF ref = << >> THEN None ELSE Some(Head(ref)))
    /\ RB_pop_back(ring).ret =
          (IF ref = << >> THEN None ELSE Some(ref[Len(ref)]))

(* C18 witness: a full buffer of the largest capacity whose head has     *)
(* moved off slot 0, holding distinct elements.                           *)
C18_Witness ==
    /\ ring.capacity = MaxRingCapacity
    /\ RB_is_full(ring)
    /\ ring.head # 0
    /\ \A i, j \in 1..Len(ref) : i # j => ref[i] # ref[j]

(* C19: peak_front returns what pop_front would return next and          *)
(* peak_back what pop_back would return next (nothing when empty).        *)
C19_PeekMatchesPop ==
    /\ RB_peak_front(ring) = RB_pop_front(ring).ret
    /\ RB_peak_back(ring) = RB_pop_back(ring).ret

(* --------------------------- evict_m on its own ----------------------- *)
MaxMainCacheSize == 4

(* insert_with_meta of each entry <<key, value, freq>>, in order. *)
RECURSIVE FillMain(_, _)
FillMain(fc, entries) ==
    IF entries = << >>
    THEN fc
    ELSE FillMain(FC_insert_with_meta(fc, Head(entries)[1], Head(entries)[2],
                                      [freq |-> Head(entries)[3]]),
                  Tail(entries))

(* A cache whose M holds 1..Cm distinct keys with any values and counters; *)
(* ring and mapping of M agree, S and G are empty.                         *)
InitMain ==
    /\ NoCall
    /\ NoUnit
    /\ \E cache_size \in 2..MaxMainCacheSize, num \in 1..(NewRatioDen - 1) :
         /\ NewSucceedsRatio(cache_size, num, NewRatioDen)
         /\ LET new == S3FIFO_new_ratio(cache_size, num, NewRatioDen)
            IN  \E n \in 1..Min(new.main_cache_capacity, MaxKey + 1) :
                  \E ks \in [1..n -> Keys], vs \in [1..n -> Values],
                     fs \in [1..n -> 0..FREQ_MAX] :
                    /\ \A i, j \in 1..n : i # j => ks[i] # ks[j]
                    /\ cache = [new EXCEPT
                                  !.m_queue = FillMain(new.m_queue,
                                      [i \in 1..n |-> <<ks[i], vs[i], fs[i]>>]),
                                  !.size = n]

EvictM ==
    /\ ~FC_empty(cache.m_queue)
    /\ cache' = evict_m(cache)
    /\ UNCHANGED <<pc, pending, iter, hits, unitvars>>

NextMain == EvictM

SpecMain == InitMain /\ [][NextMain]_vars

(* The position in M's ring, oldest first, of the entry that the laps    *)
(* reach with counter 0 first: the first one holding the least counter.   *)
DroppedIndex(fc) ==
    LET ks == RB_get_values(fc.rb)
        f(i) == Obj_get_freq(fc.hashtable[ks[i]])
    IN  CHOOSE j \in 1..Len(ks) :
          /\ \A i \in 1..Len(ks) : f(j) <= f(i)
          /\ \A i \in 1..(j - 1) : f(j) < f(i)

(* C20: evict_m on a non-empty, consistent M ends having dropped exactly *)
(* one entry, the first one in ring order with the least counter f, on    *)
(* its (f+1)-th pop and without placing it in G.  Every pop before that   *)
(* one reinserted its entry at the tail with the counter one lower and    *)
(* the value unchanged: the entries ahead of the dropped one were popped  *)
(* f+1 times and now follow the rest in the ring, those behind it f times.*)
C20_EvictMLaps ==
    [][EvictM =>
        LET M   == cache.m_queue
            ks  == RB_get_values(M.rb)
            n   == Len(ks)
            j   == DroppedIndex(M)
            f   == Obj_get_freq(M.hashtable[ks[j]])
            M2  == cache'.m_queue
        IN  /\ FC_len(M2) = FC_len(M) - 1
            /\ RB_get_values(M2.rb) = SubSeq(ks, j + 1, n) \o SubSeq(ks, 1, j - 1)
            /\ DOMAIN M2.hashtable = (DOMAIN M.hashtable) \ {ks[j]}
            /\ \A i \in (1..n) \ {j} :
                 /\ M2.hashtable[ks[i]].value = M.hashtable[ks[i]].value
                 /\ Obj_get_freq(M2.hashtable[ks[i]]) =
                      Obj_get_freq(M.hashtable[ks[i]]) - f
                        - (IF i < j THEN 1 ELSE 0)
            /\ cache'.g_queue = cache.g_queue
            /\ ks[j] \notin DOMAIN cache'.g_queue.hashtable
            /\ cache'.s_queue = cache.s_queue
            /\ cache'.size = cache.size
    ]_vars

(* C20 witness: an M of capacity 3 that was full, after one evict_m that *)
(* popped twice: the oldest entry took a lap (it now sits at the tail),   *)
(* the second was dropped.                                                *)
C20_Witness ==
    /\ cache.m_queue.rb.capacity = 3
    /\ cache.m_queue.rb.head = 2
    /\ FC_len(cache.m_queue) = 2
    /\ cache.size = 3

(* ----------------------- runs that never call get --------------------- *)
NextWrite ==
    \/ \E key \in Keys, value \in Values : Put(key, value)
    \/ InsertLoop

SpecWrite == Init /\ [][NextWrite]_vars

(* C21: an entry that was only written by put and never read by get is   *)
(* never promoted from S to M: in a run without any get, evict_s pops no  *)
(* entry with counter > 1.                                                *)
C21_WriteOnlyNeverPromoted ==
    (pc = "insert" /\ FC_is_full(cache.s_queue)) => PromotedKeys(cache) = {}

(* C22: head and tail are in [0, capacity), size is in [0, capacity] and *)
(* tail = (head + size) mod capacity after any sequence of push_back,     *)
(* push_front, pop_front and pop_back.                                    *)
C22_RingStructure ==
    /\ ring.capacity >= 1
    /\ ring.head \in 0..(ring.capacity - 1)
    /\ ring.tail \in 0..(ring.capacity - 1)
    /\ ring.size \in 0..ring.capacity
    /\ ring.tail = (ring.head + ring.size) % ring.capacity
    /\ ring.size = ring.capacity => ring.head = ring.tail
    /\ DOMAIN ring.buffer = 0..(ring.capacity - 1)

(* C22 witness: a partly filled buffer whose occupied slots wrap past    *)
(* the end of the array, reached through pushes and pops at both ends.    *)
C22_Witness ==
    /\ ring.capacity = MaxRingCapacity
    /\ ring.size = 2
    /\ ring.head = ring.capacity - 1
    /\ ring.tail = 1
    /\ Len(ref) = 2

=============================================================================
